---- MODULE Spec2Model ----
(***************************************************************************)
(* Model of RunStorage (src/src/ocr/services/storage.py): the filesystem   *)
(* gateway of one pipeline run.  Strings are sequences of one-character    *)
(* strings, paths are sequences of components, and the filesystem is a set *)
(* of directories plus a map from file paths to contents.                  *)
(***************************************************************************)
EXTENDS Integers, Sequences, FiniteSets, TLC

VARIABLES
    fs,            \* the filesystem: [dirs: set of paths, files: path -> content]
    now,           \* the reading of the local wall clock, in seconds after midnight
    constructed,   \* TRUE once RunStorage.__init__ has returned normally
    self,          \* the fields base_dir, pdf_path, run_dir, pages_dir, batches_dir
    call,          \* the most recent call: [op, args], args without the content written
    outcome,       \* how it ended: "ok" or the name of the exception raised
    ret,           \* [v |-> the value it returned], None when it raised
    pre,           \* fs, self and created as they were before that call
    created,       \* [start, end, id] of each successful create_batch of the current run
    written,       \* key -> argument of the latest successful write in the current run
    nwrites,       \* number of calls other than create_run_dir that changed the filesystem
    threads        \* the calls in progress on concurrent threads: [task, pc, target, out]

vars == <<fs, now, constructed, self, call, outcome, ret, pre, created, written, nwrites,
          threads>>

(***************************************************************************)
(* Bounds of the model.                                                    *)
(***************************************************************************)
MaxClock == 1          \* the clock reads 0..MaxClock
MaxWrites == 2         \* filesystem-changing write calls per behaviour of Spec
MaxFaultyWrites == 1   \* the same for SpecFaulty
MaxOverwrites == 3     \* the same for SpecOverwrite
MaxPageWrites == 3     \* the same for SpecPages
MaxRunWrites == 3      \* the same for SpecRuns
MaxThreads == 2        \* concurrent calls, and batches made before them, in SpecThreads

\* Width of the "04d" format of page and batch names.
Width == 4

\* Python's None, as a value comparable with Paths
None == [none |-> TRUE]

(***************************************************************************)
(* Strings.                                                                *)
(***************************************************************************)
DigitChars == <<"0", "1", "2", "3", "4", "5", "6", "7", "8", "9">>

IsDigit(ch) == \E i \in 1..10 : DigitChars[i] = ch

RECURSIVE Digits(_)
\* decimal digits of n >= 0, without padding
Digits(n) == IF n < 10 THEN <<DigitChars[n + 1]>>
             ELSE Digits(n \div 10) \o <<DigitChars[(n % 10) + 1]>>

RECURSIVE ZeroPad(_, _)
\* s filled on the left with "0" up to w characters; never truncates
ZeroPad(s, w) == IF Len(s) >= w THEN s ELSE ZeroPad(<<"0">> \o s, w)

\* Python's format(n, "0{w}d"): sign-aware zero padding, the sign counts in the width
FormatD(n, w) == IF n < 0 THEN <<"-">> \o ZeroPad(Digits(-n), w - 1)
                 ELSE ZeroPad(Digits(n), w)

\* datetime.strftime("%d_%m_%Y-%H_%M_%S") of the instant t seconds after
\* midnight of 01.01.2026
FormatTime(t) ==
    <<"0", "1", "_", "0", "1", "_", "2", "0", "2", "6", "-">>
    \o FormatD(t \div 3600, 2) \o <<"_">>
    \o FormatD((t \div 60) % 60, 2) \o <<"_">>
    \o FormatD(t % 60, 2)

S_pages == <<"p", "a", "g", "e", "s">>
S_batches == <<"b", "a", "t", "c", "h", "e", "s">>
S_page_ == <<"p", "a", "g", "e", "_">>
S_png == <<".", "p", "n", "g">>
S_prompt_md == <<"p", "r", "o", "m", "p", "t", ".", "m", "d">>
S_response_json == <<"r", "e", "s", "p", "o", "n", "s", "e", ".", "j", "s", "o", "n">>
S_output_xlsx == <<"o", "u", "t", "p", "u", "t", ".", "x", "l", "s", "x">>
S_input == <<"i", "n", "p", "u", "t", "(">>
S_pdf == <<")", ".", "p", "d", "f">>
S_dot == <<".">>
S_dotdot == <<".", ".">>

(***************************************************************************)
(* pathlib.  A Path is [abs, parts]; parts are components (strings).       *)
(***************************************************************************)
RECURSIVE SplitSlash(_, _, _)
\* the components of string s between "/" characters; cur is the component
\* being read, acc the components read so far
SplitSlash(s, cur, acc) ==
    IF s = << >> THEN Append(acc, cur)
    ELSE IF Head(s) = "/" THEN SplitSlash(Tail(s), << >>, Append(acc, cur))
    ELSE SplitSlash(Tail(s), Append(cur, Head(s)), acc)

\* Path(s) for a string s: a leading "/" makes it absolute, empty and "."
\* components are dropped, ".." components are kept
ParsePath(s) ==
    [abs |-> s # << >> /\ Head(s) = "/",
     parts |-> SelectSeq(SplitSlash(s, << >>, << >>),
                         LAMBDA c : c # << >> /\ c # S_dot)]

\* p / q of pathlib: an absolute right operand replaces the left one
JoinPath(p, q) == IF q.abs THEN q
                  ELSE [abs |-> p.abs, parts |-> p.parts \o q.parts]

\* p / s for a string s
Slash(p, s) == JoinPath(p, ParsePath(s))

\* index of the last "." of name, 0 if there is none
LastDot(name) ==
    LET I == {i \in 1..Len(name) : name[i] = "."}
    IN IF I = {} THEN 0 ELSE CHOOSE i \in I : \A j \in I : j <= i

\* Path.stem: the final component without its last suffix
Stem(p) ==
    LET name == p.parts[Len(p.parts)]
        d == LastDot(name)
    IN IF d <= 1 \/ d = Len(name) THEN name ELSE SubSeq(name, 1, d - 1)

(***************************************************************************)
(* The filesystem.  Paths on disk are absolute and kept as their parts.    *)
(***************************************************************************)
Parent(parts) == SubSeq(parts, 1, Len(parts) - 1)

IsDir(f, parts) == parts \in f.dirs
IsFile(f, parts) == parts \in DOMAIN f.files

\* the result of a path walk that met a missing intermediate directory
NoEntry == << <<"ENOENT">> >>

RECURSIVE Walk(_, _, _)
\* the kernel's path walk: cur is the directory reached so far, rest the
\* components still to follow; yields the location named (which may or may
\* not exist), or NoEntry when an intermediate component is not a directory
Walk(f, cur, rest) ==
    IF rest = << >> THEN cur
    ELSE IF ~IsDir(f, cur) THEN NoEntry
    ELSE IF Head(rest) = S_dotdot
         THEN Walk(f, IF cur = << >> THEN cur ELSE Parent(cur), Tail(rest))
    ELSE Walk(f, Append(cur, Head(rest)), Tail(rest))

\* the canonical location an absolute Path names; NoEntry if the walk fails
Locate(f, p) == Walk(f, << >>, p.parts)

\* Path.exists()
Exists(f, p) ==
    LET loc == Locate(f, p)
    IN loc # NoEntry /\ (IsDir(f, loc) \/ IsFile(f, loc))

RECURSIVE Prefixes(_)
\* parts and all its ancestors
Prefixes(parts) == IF parts = << >> THEN {<< >>}
                   ELSE {parts} \cup Prefixes(Parent(parts))

\* Path.mkdir(): the parent must be a directory and the path must be free
Mkdir(f, p) ==
    LET loc == Locate(f, p)
    IN IF loc = NoEntry
       THEN [err |-> "FileNotFoundError", fs |-> f]
       ELSE IF IsDir(f, loc) \/ IsFile(f, loc)
       THEN [err |-> "FileExistsError", fs |-> f]
       ELSE IF ~IsDir(f, Parent(loc))
       THEN [err |-> "FileNotFoundError", fs |-> f]
       ELSE [err |-> "ok", fs |-> [f EXCEPT !.dirs = @ \cup {loc}]]

\* Path.mkdir(parents=True, exist_ok=exist_ok): missing ancestors are created
MkdirParents(f, p, exist_ok) ==
    IF Exists(f, p)
    THEN IF exist_ok /\ IsDir(f, Locate(f, p))
         THEN [err |-> "ok", fs |-> f]
         ELSE [err |-> "FileExistsError", fs |-> f]
    ELSE IF \E a \in Prefixes(p.parts) : IsFile(f, a)
    THEN [err |-> "NotADirectoryError", fs |-> f]
    ELSE [err |-> "ok", fs |-> [f EXCEPT !.dirs = @ \cup Prefixes(p.parts)]]

\* open(p, "w") + write + close: creates or truncates the file, then holds
\* exactly content
WriteFile(f, p, content) ==
    LET loc == Locate(f, p)
    IN IF loc = NoEntry \/ loc = << >> \/ ~IsDir(f, Parent(loc))
       THEN [err |-> IF loc = << >> THEN "IsADirectoryError" ELSE "FileNotFoundError",
             fs |-> f]
       ELSE IF IsDir(f, loc)
       THEN [err |-> "IsADirectoryError", fs |-> f]
       ELSE [err |-> "ok",
             fs |-> [f EXCEPT !.files =
                        [q \in DOMAIN @ \cup {loc} |->
                            IF q = loc THEN content ELSE @[q]]]]

\* shutil.copy2(src, dst)
Copy2(f, src, dst) ==
    LET loc == Locate(f, src)
    IN IF loc = NoEntry \/ ~IsFile(f, loc)
       THEN [err |-> "FileNotFoundError", fs |-> f]
       ELSE WriteFile(f, dst, f.files[loc])

(***************************************************************************)
(* json.dumps(value, indent=2, ensure_ascii=False).  A JSON value is       *)
(* [t |-> "str" | "list" | "obj", v |-> ...]; an object is the sequence of *)
(* its <<key, value>> items in insertion order.                            *)
(***************************************************************************)
IsAscii(ch) == ch # "é"

\* one character of a string literal
EscapeChar(ch, ensure_ascii) ==
    IF ch = "\"" THEN <<"\\", "\"">>
    ELSE IF ch = "\\" THEN <<"\\", "\\">>
    ELSE IF ch = "\n" THEN <<"\\", "n">>
    ELSE IF ensure_ascii /\ ~IsAscii(ch) THEN <<"\\", "u", "0", "0", "e", "9">>
    ELSE <<ch>>

RECURSIVE EscapeStr(_, _)
EscapeStr(s, ensure_ascii) ==
    IF s = << >> THEN << >>
    ELSE EscapeChar(Head(s), ensure_ascii) \o EscapeStr(Tail(s), ensure_ascii)

Quote(s, ensure_ascii) == <<"\"">> \o EscapeStr(s, ensure_ascii) \o <<"\"">>

\* a newline followed by indent * level spaces
NewlineIndent(indent, level) == <<"\n">> \o [i \in 1..(indent * level) |-> " "]

RECURSIVE DumpsValue(_, _, _, _)
RECURSIVE DumpsItems(_, _, _, _, _)
DumpsValue(v, indent, ensure_ascii, level) ==
    IF v.t = "str" THEN Quote(v.v, ensure_ascii)
    ELSE LET open == IF v.t = "obj" THEN "{" ELSE "["
             close == IF v.t = "obj" THEN "}" ELSE "]"
         IN IF v.v = << >> THEN <<open, close>>
            ELSE <<open>> \o DumpsItems(v, 1, indent, ensure_ascii, level + 1)
                 \o NewlineIndent(indent, level) \o <<close>>

\* items i.. of the list or object v, each on a line of its own
DumpsItems(v, i, indent, ensure_ascii, level) ==
    LET item == v.v[i]
        text == IF v.t = "obj"
                THEN Quote(item[1], ensure_ascii) \o <<":", " ">>
                     \o DumpsValue(item[2], indent, ensure_ascii, level)
                ELSE DumpsValue(item, indent, ensure_ascii, level)
    IN NewlineIndent(indent, level) \o text
       \o IF i < Len(v.v)
          THEN <<",">> \o DumpsItems(v, i + 1, indent, ensure_ascii, level)
          ELSE << >>

Dumps(v, indent, ensure_ascii) == DumpsValue(v, indent, ensure_ascii, 0)

\* Path.write_text(text, encoding="utf-8") on a POSIX system: the characters
\* are stored as given, without newline translation
WriteText(f, p, text) == WriteFile(f, p, text)

\* Path.write_bytes(data)
WriteBytes(f, p, data) == WriteFile(f, p, data)

(***************************************************************************)
(* Inputs.                                                                 *)
(***************************************************************************)
\* a halt-signal response (models/schemas.py HaltSignal)
HaltPayload ==
    [t |-> "obj", v |-> <<
        <<<<"r", "e", "s", "p", "o", "n", "s", "e", "_", "t", "y", "p", "e">>, [t |-> "str", v |-> <<"h", "a", "l", "t", "_", "s", "i", "g", "n", "a", "l">>]>>,
        <<<<"e", "r", "r", "o", "r", "_", "m", "e", "s", "s", "a", "g", "e">>, [t |-> "str", v |-> <<"n", "é">>]>> >>]

\* a legend-update response cut down to one circuit (models/schemas.py
\* LegendUpdate, Legend, Circuit)
LegendPayload ==
    [t |-> "obj", v |-> <<
        <<<<"r", "e", "s", "p", "o", "n", "s", "e", "_", "t", "y", "p", "e">>, [t |-> "str", v |-> <<"l", "e", "g", "e", "n", "d", "_", "u", "p", "d", "a", "t", "e">>]>>,
        <<<<"l", "e", "g", "e", "n", "d">>, [t |-> "obj", v |-> <<
            <<<<"c", "i", "r", "c", "u", "i", "t", "s">>, [t |-> "list", v |-> <<
                [t |-> "obj", v |-> <<
                    <<<<"t", "a", "g">>, [t |-> "str", v |-> <<"1", "0", "Q", "1">>]>> >>] >>]>> >>]>> >>]

Payloads == {HaltPayload, LegendPayload}

Blobs == {<<"b1">>, <<"b2">>}

Prompts == {<<"h", "i">>, <<"y", "o", "\n">>}

\* indices tried: a negative one, the first page, and the first index that
\* has more digits than the format width
Indices == {-1, 0, 10^Width}

\* page indices tried: the first page, both sides of the step from one digit
\* to two, and both sides of the step past the format width
PageIndices == {0, 9, 10, 10^Width - 1, 10^Width}

\* the identifier padded to one character less
FormatBatchId_Narrow(start, end) ==
    FormatD(start, Width - 1) \o <<"-">> \o FormatD(end, Width - 1)

\* the identifier create_batch forms for a range (storage.py line 87)
FormatBatchId(start, end) ==
    FormatD(start, Width) \o <<"-">> \o FormatD(end, Width)

\* batch_id arguments tried: the empty string, strings without a dash, strings
\* with a dash and a character that is neither a digit nor a dash, well-formed
\* strings that create_batch never returns, and every identifier create_batch
\* can return for the indices tried
BatchIds ==
    {<< >>, <<"0">>, <<".", ".">>, <<"/">>,
     <<"-", ".">>, FormatBatchId(0, 0) \o <<"/", ".", ".">>,
     <<"-">>, <<"0", "-", "0">>}
    \cup {FormatBatchId(r[1], r[2]) : r \in {q \in Indices \X Indices : q[1] <= q[2]}}

\* constructor arguments tried
BaseDirs == {[abs |-> TRUE, parts |-> << <<"s", "r", "v">>, <<"o", "u", "t">> >>],
             [abs |-> FALSE, parts |-> << <<"o", "u", "t">> >>]}

PdfPaths == {[abs |-> TRUE, parts |-> << <<"i", "n">>, <<"d", "o", "c", ".", "p", "d", "f">> >>],
             [abs |-> FALSE, parts |-> << <<"d", "o", "c", ".", "p", "d", "f">> >>]}

\* where an injected OSError (permission denied, disk full) stops create_run_dir
Faults == {"none", "mkdir_base", "mkdir_run", "mkdir_pages", "mkdir_batches", "copy2"}

(***************************************************************************)
(* RunStorage.  Each method is an operator from the filesystem f and the   *)
(* object's fields obj to [out, ret, fs, obj]: the exception raised (or  *)
(* "ok"), the value returned, and the filesystem and fields afterwards.    *)
(***************************************************************************)
Raise(exc, f, obj) == [out |-> exc, ret |-> None, fs |-> f, self |-> obj]

Return(value, f, obj) == [out |-> "ok", ret |-> [v |-> value], fs |-> f, self |-> obj]

\* __init__ that checks base_dir only
InitCheck_BaseOnly(b, p) ==
    IF ~b.abs THEN "ValueError" ELSE "ok"

\* __init__: "ok" or the exception raised
InitCheck(b, p) ==
    IF ~b.abs THEN "ValueError"
    ELSE IF ~p.abs THEN "ValueError"
    ELSE "ok"

\* _validate_batch_id without its second check: any string with a dash passes
ValidateBatchId_DashOnly(batch_id) ==
    IF batch_id = << >> \/ ~(\E i \in 1..Len(batch_id) : batch_id[i] = "-")
    THEN "ValueError"
    ELSE "ok"

\* _validate_batch_id that only rejects the empty string
ValidateBatchId_NonEmpty(batch_id) ==
    IF batch_id = << >> THEN "ValueError" ELSE "ok"

\* _validate_batch_id that demands the shape of the example: 4 digits, a
\* dash, 4 digits
ValidateBatchId_Shape(batch_id) ==
    IF batch_id = << >> \/ ~(\E i \in 1..Len(batch_id) : batch_id[i] = "-")
    THEN "ValueError"
    ELSE IF \/ Len(batch_id) # 2 * Width + 1
            \/ \E i \in 1..Len(batch_id) :
                  IF i = Width + 1 THEN batch_id[i] # "-" ELSE ~IsDigit(batch_id[i])
    THEN "ValueError"
    ELSE "ok"

\* _validate_batch_id: "ok" or the exception raised
ValidateBatchId(batch_id) ==
    IF batch_id = << >> \/ ~(\E i \in 1..Len(batch_id) : batch_id[i] = "-")
    THEN "ValueError"
    ELSE IF \E i \in 1..Len(batch_id) : ~(IsDigit(batch_id[i]) \/ batch_id[i] = "-")
    THEN "ValueError"
    ELSE "ok"

\* create_run_dir that stores run_dir as soon as the run folder is made
CreateRunDirM_RunDirFirst(f, obj, t, fault) ==
    LET m0 == IF fault = "mkdir_base" THEN [err |-> "OSError", fs |-> f]
              ELSE MkdirParents(f, obj.base_dir, TRUE)
        dir_name == FormatTime(t)
        run_dir_abs == Slash(obj.base_dir, dir_name)
        m1 == IF fault = "mkdir_run" THEN [err |-> "OSError", fs |-> m0.fs]
              ELSE Mkdir(m0.fs, run_dir_abs)
        pages_abs == Slash(run_dir_abs, S_pages)
        batches_abs == Slash(run_dir_abs, S_batches)
        m2 == IF fault = "mkdir_pages" THEN [err |-> "OSError", fs |-> m1.fs]
              ELSE Mkdir(m1.fs, pages_abs)
        m3 == IF fault = "mkdir_batches" THEN [err |-> "OSError", fs |-> m2.fs]
              ELSE Mkdir(m2.fs, batches_abs)
        original_stem == Stem(obj.pdf_path)
        m4 == IF fault = "copy2" THEN [err |-> "OSError", fs |-> m3.fs]
              ELSE Copy2(m3.fs, obj.pdf_path,
                         Slash(run_dir_abs, S_input \o original_stem \o S_pdf))
    IN IF m0.err # "ok" THEN Raise(m0.err, m0.fs, obj)
       ELSE IF m1.err # "ok" THEN Raise(m1.err, m1.fs, obj)
       ELSE IF m2.err # "ok"
       THEN Raise(m2.err, m2.fs, [obj EXCEPT !.run_dir = run_dir_abs])
       ELSE IF m3.err # "ok"
       THEN Raise(m3.err, m3.fs, [obj EXCEPT !.run_dir = run_dir_abs])
       ELSE IF m4.err # "ok"
       THEN Raise(m4.err, m4.fs, [obj EXCEPT !.run_dir = run_dir_abs])
       ELSE Return(run_dir_abs, m4.fs,
                   [obj EXCEPT !.run_dir = run_dir_abs,
                                !.pages_dir = pages_abs,
                                !.batches_dir = batches_abs])

\* create_run_dir that stores the three paths before it copies the PDF
CreateRunDirM_AssignBeforeCopy(f, obj, t, fault) ==
    LET m0 == IF fault = "mkdir_base" THEN [err |-> "OSError", fs |-> f]
              ELSE MkdirParents(f, obj.base_dir, TRUE)
        dir_name == FormatTime(t)
        run_dir_abs == Slash(obj.base_dir, dir_name)
        m1 == IF fault = "mkdir_run" THEN [err |-> "OSError", fs |-> m0.fs]
              ELSE Mkdir(m0.fs, run_dir_abs)
        pages_abs == Slash(run_dir_abs, S_pages)
        batches_abs == Slash(run_dir_abs, S_batches)
        m2 == IF fault = "mkdir_pages" THEN [err |-> "OSError", fs |-> m1.fs]
              ELSE Mkdir(m1.fs, pages_abs)
        m3 == IF fault = "mkdir_batches" THEN [err |-> "OSError", fs |-> m2.fs]
              ELSE Mkdir(m2.fs, batches_abs)
        original_stem == Stem(obj.pdf_path)
        m4 == IF fault = "copy2" THEN [err |-> "OSError", fs |-> m3.fs]
              ELSE Copy2(m3.fs, obj.pdf_path,
                         Slash(run_dir_abs, S_input \o original_stem \o S_pdf))
    IN IF m0.err # "ok" THEN Raise(m0.err, m0.fs, obj)
       ELSE IF m1.err # "ok" THEN Raise(m1.err, m1.fs, obj)
       ELSE IF m2.err # "ok" THEN Raise(m2.err, m2.fs, obj)
       ELSE IF m3.err # "ok" THEN Raise(m3.err, m3.fs, obj)
       ELSE IF m4.err # "ok"
       THEN Raise(m4.err, m4.fs,
                  [obj EXCEPT !.run_dir = run_dir_abs,
                              !.pages_dir = pages_abs,
                              !.batches_dir = batches_abs])
       ELSE Return(run_dir_abs, m4.fs,
                   [obj EXCEPT !.run_dir = run_dir_abs,
                                !.pages_dir = pages_abs,
                                !.batches_dir = batches_abs])

\* create_run_dir whose three mkdir calls all pass exist_ok=True
CreateRunDirM_ExistOk(f, obj, t, fault) ==
    LET m0 == IF fault = "mkdir_base" THEN [err |-> "OSError", fs |-> f]
              ELSE MkdirParents(f, obj.base_dir, TRUE)
        dir_name == FormatTime(t)
        run_dir_abs == Slash(obj.base_dir, dir_name)
        m1 == IF fault = "mkdir_run" THEN [err |-> "OSError", fs |-> m0.fs]
              ELSE MkdirParents(m0.fs, run_dir_abs, TRUE)
        pages_abs == Slash(run_dir_abs, S_pages)
        batches_abs == Slash(run_dir_abs, S_batches)
        m2 == IF fault = "mkdir_pages" THEN [err |-> "OSError", fs |-> m1.fs]
              ELSE MkdirParents(m1.fs, pages_abs, TRUE)
        m3 == IF fault = "mkdir_batches" THEN [err |-> "OSError", fs |-> m2.fs]
              ELSE MkdirParents(m2.fs, batches_abs, TRUE)
        original_stem == Stem(obj.pdf_path)
        m4 == IF fault = "copy2" THEN [err |-> "OSError", fs |-> m3.fs]
              ELSE Copy2(m3.fs, obj.pdf_path,
                         Slash(run_dir_abs, S_input \o original_stem \o S_pdf))
    IN IF m0.err # "ok" THEN Raise(m0.err, m0.fs, obj)
       ELSE IF m1.err # "ok" THEN Raise(m1.err, m1.fs, obj)
       ELSE IF m2.err # "ok" THEN Raise(m2.err, m2.fs, obj)
       ELSE IF m3.err # "ok" THEN Raise(m3.err, m3.fs, obj)
       ELSE IF m4.err # "ok" THEN Raise(m4.err, m4.fs, obj)
       ELSE Return(run_dir_abs, m4.fs,
                   [obj EXCEPT !.run_dir = run_dir_abs,
                                !.pages_dir = pages_abs,
                                !.batches_dir = batches_abs])

\* create_run_dir that carries on when the copy of the PDF fails
CreateRunDirM_IgnoreCopyError(f, obj, t, fault) ==
    LET m0 == IF fault = "mkdir_base" THEN [err |-> "OSError", fs |-> f]
              ELSE MkdirParents(f, obj.base_dir, TRUE)
        dir_name == FormatTime(t)
        run_dir_abs == Slash(obj.base_dir, dir_name)
        m1 == IF fault = "mkdir_run" THEN [err |-> "OSError", fs |-> m0.fs]
              ELSE Mkdir(m0.fs, run_dir_abs)
        pages_abs == Slash(run_dir_abs, S_pages)
        batches_abs == Slash(run_dir_abs, S_batches)
        m2 == IF fault = "mkdir_pages" THEN [err |-> "OSError", fs |-> m1.fs]
              ELSE Mkdir(m1.fs, pages_abs)
        m3 == IF fault = "mkdir_batches" THEN [err |-> "OSError", fs |-> m2.fs]
              ELSE Mkdir(m2.fs, batches_abs)
        original_stem == Stem(obj.pdf_path)
        m4 == IF fault = "copy2" THEN [err |-> "OSError", fs |-> m3.fs]
              ELSE Copy2(m3.fs, obj.pdf_path,
                         Slash(run_dir_abs, S_input \o original_stem \o S_pdf))
    IN IF m0.err # "ok" THEN Raise(m0.err, m0.fs, obj)
       ELSE IF m1.err # "ok" THEN Raise(m1.err, m1.fs, obj)
       ELSE IF m2.err # "ok" THEN Raise(m2.err, m2.fs, obj)
       ELSE IF m3.err # "ok" THEN Raise(m3.err, m3.fs, obj)
       ELSE Return(run_dir_abs, m4.fs,
                   [obj EXCEPT !.run_dir = run_dir_abs,
                                !.pages_dir = pages_abs,
                                !.batches_dir = batches_abs])

\* create_run_dir that stores the three paths only while they are unset
CreateRunDirM_KeepFirst(f, obj, t, fault) ==
    LET m0 == IF fault = "mkdir_base" THEN [err |-> "OSError", fs |-> f]
              ELSE MkdirParents(f, obj.base_dir, TRUE)
        dir_name == FormatTime(t)
        run_dir_abs == Slash(obj.base_dir, dir_name)
        m1 == IF fault = "mkdir_run" THEN [err |-> "OSError", fs |-> m0.fs]
              ELSE Mkdir(m0.fs, run_dir_abs)
        pages_abs == Slash(run_dir_abs, S_pages)
        batches_abs == Slash(run_dir_abs, S_batches)
        m2 == IF fault = "mkdir_pages" THEN [err |-> "OSError", fs |-> m1.fs]
              ELSE Mkdir(m1.fs, pages_abs)
        m3 == IF fault = "mkdir_batches" THEN [err |-> "OSError", fs |-> m2.fs]
              ELSE Mkdir(m2.fs, batches_abs)
        original_stem == Stem(obj.pdf_path)
        m4 == IF fault = "copy2" THEN [err |-> "OSError", fs |-> m3.fs]
              ELSE Copy2(m3.fs, obj.pdf_path,
                         Slash(run_dir_abs, S_input \o original_stem \o S_pdf))
    IN IF m0.err # "ok" THEN Raise(m0.err, m0.fs, obj)
       ELSE IF m1.err # "ok" THEN Raise(m1.err, m1.fs, obj)
       ELSE IF m2.err # "ok" THEN Raise(m2.err, m2.fs, obj)
       ELSE IF m3.err # "ok" THEN Raise(m3.err, m3.fs, obj)
       ELSE IF m4.err # "ok" THEN Raise(m4.err, m4.fs, obj)
       ELSE Return(run_dir_abs, m4.fs,
                   IF obj.run_dir # None THEN obj
                   ELSE [obj EXCEPT !.run_dir = run_dir_abs,
                                    !.pages_dir = pages_abs,
                                    !.batches_dir = batches_abs])

\* create_run_dir at clock reading t; fault names the filesystem call that
\* fails with an OSError of the environment, if any
CreateRunDirM(f, obj, t, fault) ==
    LET m0 == IF fault = "mkdir_base" THEN [err |-> "OSError", fs |-> f]
              ELSE MkdirParents(f, obj.base_dir, TRUE)
        dir_name == FormatTime(t)
        run_dir_abs == Slash(obj.base_dir, dir_name)
        m1 == IF fault = "mkdir_run" THEN [err |-> "OSError", fs |-> m0.fs]
              ELSE Mkdir(m0.fs, run_dir_abs)
        pages_abs == Slash(run_dir_abs, S_pages)
        batches_abs == Slash(run_dir_abs, S_batches)
        m2 == IF fault = "mkdir_pages" THEN [err |-> "OSError", fs |-> m1.fs]
              ELSE Mkdir(m1.fs, pages_abs)
        m3 == IF fault = "mkdir_batches" THEN [err |-> "OSError", fs |-> m2.fs]
              ELSE Mkdir(m2.fs, batches_abs)
        original_stem == Stem(obj.pdf_path)
        m4 == IF fault = "copy2" THEN [err |-> "OSError", fs |-> m3.fs]
              ELSE Copy2(m3.fs, obj.pdf_path,
                         Slash(run_dir_abs, S_input \o original_stem \o S_pdf))
    IN IF m0.err # "ok" THEN Raise(m0.err, m0.fs, obj)
       ELSE IF m1.err # "ok" THEN Raise(m1.err, m1.fs, obj)
       ELSE IF m2.err # "ok" THEN Raise(m2.err, m2.fs, obj)
       ELSE IF m3.err # "ok" THEN Raise(m3.err, m3.fs, obj)
       ELSE IF m4.err # "ok" THEN Raise(m4.err, m4.fs, obj)
       ELSE Return(run_dir_abs, m4.fs,
                   [obj EXCEPT !.run_dir = run_dir_abs,
                                !.pages_dir = pages_abs,
                                !.batches_dir = batches_abs])

\* write_image that formats the index without zero padding
WriteImageM_Unpadded(f, obj, page_index, data) ==
    IF obj.pages_dir = None THEN Raise("AttributeError", f, obj)
    ELSE LET target == Slash(obj.pages_dir,
                             S_page_ \o FormatD(page_index, 1) \o S_png)
             w == WriteBytes(f, target, data)
         IN IF w.err # "ok" THEN Raise(w.err, w.fs, obj)
            ELSE Return(target, w.fs, obj)

WriteImageM(f, obj, page_index, data) ==
    IF obj.pages_dir = None THEN Raise("AttributeError", f, obj)
    ELSE LET target == Slash(obj.pages_dir,
                             S_page_ \o FormatD(page_index, Width) \o S_png)
             w == WriteBytes(f, target, data)
         IN IF w.err # "ok" THEN Raise(w.err, w.fs, obj)
            ELSE Return(target, w.fs, obj)

\* create_batch whose mkdir passes exist_ok=True
CreateBatchM_ExistOk(f, obj, start_page_index, end_page_index) ==
    IF start_page_index > end_page_index THEN Raise("ValueError", f, obj)
    ELSE IF obj.batches_dir = None THEN Raise("AttributeError", f, obj)
    ELSE LET batch_id == FormatBatchId(start_page_index, end_page_index)
             batch_dir == Slash(obj.batches_dir, batch_id)
             m == MkdirParents(f, batch_dir, TRUE)
         IN IF m.err # "ok" THEN Raise(m.err, m.fs, obj)
            ELSE Return(batch_id, m.fs, obj)

\* create_batch that names the directory after the start index alone
CreateBatchM_StartOnly(f, obj, start_page_index, end_page_index) ==
    IF start_page_index > end_page_index THEN Raise("ValueError", f, obj)
    ELSE IF obj.batches_dir = None THEN Raise("AttributeError", f, obj)
    ELSE LET batch_id == FormatBatchId(start_page_index, start_page_index)
             batch_dir == Slash(obj.batches_dir, batch_id)
             m == MkdirParents(f, batch_dir, FALSE)
         IN IF m.err # "ok" THEN Raise(m.err, m.fs, obj)
            ELSE Return(batch_id, m.fs, obj)

\* create_batch that compares start and end only after it made the directory
CreateBatchM_LateCheck(f, obj, start_page_index, end_page_index) ==
    IF obj.batches_dir = None THEN Raise("AttributeError", f, obj)
    ELSE LET batch_id == FormatBatchId(start_page_index, end_page_index)
             batch_dir == Slash(obj.batches_dir, batch_id)
             m == MkdirParents(f, batch_dir, FALSE)
         IN IF m.err # "ok" THEN Raise(m.err, m.fs, obj)
            ELSE IF start_page_index > end_page_index THEN Raise("ValueError", m.fs, obj)
            ELSE Return(batch_id, m.fs, obj)

CreateBatchM(f, obj, start_page_index, end_page_index) ==
    IF start_page_index > end_page_index THEN Raise("ValueError", f, obj)
    ELSE IF obj.batches_dir = None THEN Raise("AttributeError", f, obj)
    ELSE LET batch_id == FormatBatchId(start_page_index, end_page_index)
             batch_dir == Slash(obj.batches_dir, batch_id)
             m == MkdirParents(f, batch_dir, FALSE)
         IN IF m.err # "ok" THEN Raise(m.err, m.fs, obj)
            ELSE Return(batch_id, m.fs, obj)

\* write_prompt that writes to the response's file name
WritePromptM_WrongFile(f, obj, batch_id, content_md) ==
    IF ValidateBatchId(batch_id) # "ok" THEN Raise(ValidateBatchId(batch_id), f, obj)
    ELSE IF obj.batches_dir = None THEN Raise("AttributeError", f, obj)
    ELSE LET batch_dir == Slash(obj.batches_dir, batch_id)
         IN IF ~Exists(f, batch_dir) THEN Raise("FileNotFoundError", f, obj)
            ELSE LET target == Slash(batch_dir, S_response_json)
                     w == WriteText(f, target, content_md)
                 IN IF w.err # "ok" THEN Raise(w.err, w.fs, obj)
                    ELSE Return(target, w.fs, obj)

\* write_prompt that creates a missing batch directory instead of raising
WritePromptM_AutoCreate(f, obj, batch_id, content_md) ==
    IF ValidateBatchId(batch_id) # "ok" THEN Raise(ValidateBatchId(batch_id), f, obj)
    ELSE IF obj.batches_dir = None THEN Raise("AttributeError", f, obj)
    ELSE LET batch_dir == Slash(obj.batches_dir, batch_id)
             m == MkdirParents(f, batch_dir, TRUE)
             target == Slash(batch_dir, S_prompt_md)
             w == WriteText(m.fs, target, content_md)
         IN IF m.err # "ok" THEN Raise(m.err, m.fs, obj)
            ELSE IF w.err # "ok" THEN Raise(w.err, w.fs, obj)
            ELSE Return(target, w.fs, obj)

WritePromptM(f, obj, batch_id, content_md) ==
    IF ValidateBatchId(batch_id) # "ok" THEN Raise(ValidateBatchId(batch_id), f, obj)
    ELSE IF obj.batches_dir = None THEN Raise("AttributeError", f, obj)
    ELSE LET batch_dir == Slash(obj.batches_dir, batch_id)
         IN IF ~Exists(f, batch_dir) THEN Raise("FileNotFoundError", f, obj)
            ELSE LET target == Slash(batch_dir, S_prompt_md)
                     w == WriteText(f, target, content_md)
                 IN IF w.err # "ok" THEN Raise(w.err, w.fs, obj)
                    ELSE Return(target, w.fs, obj)

\* write_response that stores a halt signal under a file name of its own
WriteResponseM_PerVariant(f, obj, batch_id, response_json) ==
    IF ValidateBatchId(batch_id) # "ok" THEN Raise(ValidateBatchId(batch_id), f, obj)
    ELSE IF obj.batches_dir = None THEN Raise("AttributeError", f, obj)
    ELSE LET batch_dir == Slash(obj.batches_dir, batch_id)
         IN IF ~Exists(f, batch_dir) THEN Raise("FileNotFoundError", f, obj)
            ELSE LET target == Slash(batch_dir,
                                     IF response_json = HaltPayload
                                     THEN <<"h", "a", "l", "t", ".", "j", "s", "o", "n">>
                                     ELSE S_response_json)
                     w == WriteText(f, target, Dumps(response_json, 2, FALSE))
                 IN IF w.err # "ok" THEN Raise(w.err, w.fs, obj)
                    ELSE Return(target, w.fs, obj)

WriteResponseM(f, obj, batch_id, response_json) ==
    IF ValidateBatchId(batch_id) # "ok" THEN Raise(ValidateBatchId(batch_id), f, obj)
    ELSE IF obj.batches_dir = None THEN Raise("AttributeError", f, obj)
    ELSE LET batch_dir == Slash(obj.batches_dir, batch_id)
         IN IF ~Exists(f, batch_dir) THEN Raise("FileNotFoundError", f, obj)
            ELSE LET target == Slash(batch_dir, S_response_json)
                     w == WriteText(f, target, Dumps(response_json, 2, FALSE))
                 IN IF w.err # "ok" THEN Raise(w.err, w.fs, obj)
                    ELSE Return(target, w.fs, obj)

\* write_final_excel without its guard: None / "output.xlsx" is a TypeError
WriteFinalExcelM_NoGuard(f, obj, data) ==
    IF obj.run_dir = None THEN Raise("TypeError", f, obj)
    ELSE LET target == Slash(obj.run_dir, S_output_xlsx)
             w == WriteBytes(f, target, data)
         IN IF w.err # "ok" THEN Raise(w.err, w.fs, obj)
            ELSE Return(target, w.fs, obj)

WriteFinalExcelM(f, obj, data) ==
    IF obj.run_dir = None THEN Raise("AttributeError", f, obj)
    ELSE LET target == Slash(obj.run_dir, S_output_xlsx)
             w == WriteBytes(f, target, data)
         IN IF w.err # "ok" THEN Raise(w.err, w.fs, obj)
            ELSE Return(target, w.fs, obj)

(***************************************************************************)
(* The state machine: one action per call a client can make.               *)
(***************************************************************************)
Unset == [base_dir |-> None, pdf_path |-> None,
          run_dir |-> None, pages_dir |-> None, batches_dir |-> None]

NoWrites == [k \in {} |-> << >>]

\* the disk before the program runs: the input document, and no base_dir yet
InitFs == [dirs |-> {<< >>, << <<"i", "n">> >>},
           files |-> (<< <<"i", "n">>, <<"d", "o", "c", ".", "p", "d", "f">> >>
                        :> <<"%PDF">>)]

Init ==
    /\ fs = InitFs
    /\ now = 0
    /\ constructed = FALSE
    /\ self = Unset
    /\ call = [op |-> "none", args |-> << >>]
    /\ outcome = "ok"
    /\ ret = None
    /\ pre = [fs |-> InitFs, self |-> Unset, created |-> {}]
    /\ created = {}
    /\ written = NoWrites
    /\ nwrites = 0
    /\ threads = << >>

\* w with key k set to x
Put(w, k, x) == [q \in DOMAIN w \cup {k} |-> IF q = k THEN x ELSE w[q]]

\* bookkeeping common to the method calls: c is the call, r the method's
\* result, budget the number of filesystem-changing writes allowed
Do(c, r, budget) ==
    /\ constructed
    /\ r.fs = fs \/ c.op = "create_run_dir" \/ nwrites < budget
    /\ fs' = r.fs
    /\ self' = r.self
    /\ call' = c
    /\ outcome' = r.out
    /\ ret' = r.ret
    /\ pre' = [fs |-> fs, self |-> self, created |-> created]
    /\ nwrites' = IF r.fs = fs \/ c.op = "create_run_dir" THEN nwrites ELSE nwrites + 1
    /\ UNCHANGED <<now, constructed, threads>>

\* RunStorage(b, p)
Construct(b, p) ==
    /\ ~constructed
    /\ call' = [op |-> "__init__", args |-> <<b, p>>]
    /\ outcome' = InitCheck(b, p)
    /\ ret' = None
    /\ pre' = [fs |-> fs, self |-> self, created |-> created]
    /\ IF InitCheck(b, p) = "ok"
       THEN /\ constructed' = TRUE
            /\ self' = [Unset EXCEPT !.base_dir = b, !.pdf_path = p]
       ELSE UNCHANGED <<constructed, self>>
    /\ UNCHANGED <<fs, now, created, written, nwrites, threads>>

\* a second passes on the wall clock
Tick ==
    /\ now < MaxClock
    /\ now' = now + 1
    /\ UNCHANGED <<fs, constructed, self, call, outcome, ret, pre, created, written, nwrites,
                   threads>>

CreateRunDir(fault, budget) ==
    LET r == CreateRunDirM(fs, self, now, fault)
    IN /\ Do([op |-> "create_run_dir", args |-> <<fault, now>>], r, budget)
       /\ created' = IF r.out = "ok" THEN {} ELSE created
       /\ written' = IF r.out = "ok" THEN NoWrites ELSE written

WriteImage(page_index, data, budget) ==
    LET r == WriteImageM(fs, self, page_index, data)
    IN /\ Do([op |-> "write_image", args |-> <<page_index>>], r, budget)
       /\ written' = IF r.out = "ok" THEN Put(written, <<"image", page_index>>, data)
                     ELSE written
       /\ UNCHANGED created

CreateBatch(start, end, budget) ==
    LET r == CreateBatchM(fs, self, start, end)
    IN /\ Do([op |-> "create_batch", args |-> <<start, end>>], r, budget)
       /\ created' = IF r.out = "ok"
                     THEN created \cup {[start |-> start, end |-> end, id |-> r.ret.v]}
                     ELSE created
       /\ UNCHANGED written

WritePrompt(batch_id, content_md, budget) ==
    LET r == WritePromptM(fs, self, batch_id, content_md)
    IN /\ Do([op |-> "write_prompt", args |-> <<batch_id>>], r, budget)
       /\ written' = IF r.out = "ok" THEN Put(written, <<"prompt", batch_id>>, content_md)
                     ELSE written
       /\ UNCHANGED created

WriteResponse(batch_id, response_json, budget) ==
    LET r == WriteResponseM(fs, self, batch_id, response_json)
    IN /\ Do([op |-> "write_response", args |-> <<batch_id>>], r, budget)
       /\ written' = IF r.out = "ok"
                     THEN Put(written, <<"response", batch_id>>, response_json)
                     ELSE written
       /\ UNCHANGED created

WriteFinalExcel(data, budget) ==
    LET r == WriteFinalExcelM(fs, self, data)
    IN /\ Do([op |-> "write_final_excel", args |-> << >>], r, budget)
       /\ written' = IF r.out = "ok" THEN Put(written, <<"excel">>, data) ELSE written
       /\ UNCHANGED created

\* the calls a client can make, with arguments from the given sets
Calls(faults, indices, blobs, ids, prompts, payloads, budget) ==
    \/ \E b \in BaseDirs, p \in PdfPaths : Construct(b, p)
    \/ \E fault \in faults : CreateRunDir(fault, budget)
    \/ \E i \in indices, d \in blobs : WriteImage(i, d, budget)
    \/ \E s \in indices, e \in indices : CreateBatch(s, e, budget)
    \/ \E id \in ids, c \in prompts : WritePrompt(id, c, budget)
    \/ \E id \in ids, j \in payloads : WriteResponse(id, j, budget)
    \/ \E d \in blobs : WriteFinalExcel(d, budget)

\* one run with every index and batch_id and one content per artifact, on a
\* disk that never fails
Next ==
    Calls({"none"}, Indices, {<<"b1">>}, BatchIds, {<<"h", "i">>}, {HaltPayload}, MaxWrites)

Spec == Init /\ [][Next]_vars

\* a disk that can fail at any step of create_run_dir, with one page, one
\* batch and one content per artifact
NextFaulty ==
    \/ Tick
    \/ Calls(Faults, {0}, {<<"b1">>}, {FormatBatchId(0, 0)}, {<<"h", "i">>},
             {HaltPayload}, MaxFaultyWrites)

SpecFaulty == Init /\ [][NextFaulty]_vars

\* one run with one page and one batch, and two contents per artifact
NextOverwrite ==
    Calls({"none"}, {0}, Blobs, {FormatBatchId(0, 0)}, Prompts, Payloads, MaxOverwrites)

SpecOverwrite == Init /\ [][NextOverwrite]_vars

(***************************************************************************)
(* Calls in progress on several threads.  A call takes one step per access *)
(* to shared state: the test of the field, the exists() test, the open     *)
(* that creates or truncates the file, and the write that the close        *)
(* flushes to it.                                                          *)
(***************************************************************************)
\* the target with the page name formed from a constant instead of the index
TargetOf_ConstantPage(obj, task) ==
    IF task.op = "write_image"
    THEN Slash(obj.pages_dir, S_page_ \o FormatD(0, Width) \o S_png)
    ELSE Slash(Slash(obj.batches_dir, task.key),
               IF task.op = "write_prompt" THEN S_prompt_md ELSE S_response_json)

\* the path a write_image, write_prompt or write_response call writes to;
\* task.key is <<page_index>> or the batch_id
TargetOf(obj, task) ==
    IF task.op = "write_image"
    THEN Slash(obj.pages_dir, S_page_ \o FormatD(task.key[1], Width) \o S_png)
    ELSE Slash(Slash(obj.batches_dir, task.key),
               IF task.op = "write_prompt" THEN S_prompt_md ELSE S_response_json)

\* the contents thread t passes to its call
BlobOf(t) == [i \in 1..t |-> "x"]
PromptOf(t) == [i \in 1..t |-> "p"]
PayloadOf(t) == IF t % 2 = 1 THEN HaltPayload ELSE LegendPayload

\* the characters the call sends to the file; task.by is the calling thread
DataOf(task) ==
    IF task.op = "write_image" THEN BlobOf(task.by)
    ELSE IF task.op = "write_prompt" THEN PromptOf(task.by)
    ELSE Dumps(PayloadOf(task.by), 2, FALSE)

\* write(fd, data) on a descriptor at offset 0: data replaces the first
\* Len(data) characters of the file and the rest stays
WriteAt0(old, data) == data \o SubSeq(old, Len(data) + 1, Len(old))

\* the calls thread t may be given: a page image, or a prompt or a response
\* for a batch of the run
TasksOf(t) ==
    {[op |-> "write_image", key |-> <<i>>, by |-> t] : i \in 0..1}
    \cup {[op |-> "write_prompt", key |-> c.id, by |-> t] : c \in created}
    \cup {[op |-> "write_response", key |-> c.id, by |-> t] : c \in created}

IsImageTask(task) == task.op = "write_image"

\* one call per thread, the page indices pairwise distinct and the batch ids
\* pairwise distinct
TaskVectors ==
    {v \in [1..MaxThreads -> UNION {TasksOf(t) : t \in 1..MaxThreads}] :
        /\ \A t \in 1..MaxThreads : v[t] \in TasksOf(t)
        /\ \A t, u \in 1..MaxThreads :
              (t # u /\ IsImageTask(v[t]) = IsImageTask(v[u])) => v[t].key # v[u].key}

NoThreads == threads = << >>

\* the threads are started, each with its call, on an initialized gateway
Spawn(tasks) ==
    /\ constructed
    /\ NoThreads
    /\ self.run_dir # None
    /\ threads' = [t \in 1..MaxThreads |->
                      [task |-> tasks[t], pc |-> "guard", target |-> << >>, out |-> "running"]]
    /\ call' = [op |-> "spawn", args |-> << >>]
    /\ outcome' = "ok"
    /\ ret' = None
    /\ pre' = [fs |-> fs, self |-> self, created |-> created]
    /\ UNCHANGED <<fs, now, constructed, self, created, written, nwrites>>

\* thread t moves to pc, having raised or returned out
Goto(t, pc, out) == threads' = [threads EXCEPT ![t].pc = pc, ![t].out = out]

OnlyThreads == UNCHANGED <<fs, now, constructed, self, call, outcome, ret, pre, created,
                           written, nwrites>>

\* lines 71-72, 97-99, 113-115: validation and the test of the field
ThreadGuard(t) ==
    /\ ~NoThreads /\ threads[t].pc = "guard"
    /\ LET task == threads[t].task
       IN IF IsImageTask(task)
          THEN IF self.pages_dir = None THEN Goto(t, "done", "AttributeError")
               ELSE Goto(t, "open", "running")
          ELSE IF ValidateBatchId(task.key) # "ok"
               THEN Goto(t, "done", ValidateBatchId(task.key))
               ELSE IF self.batches_dir = None THEN Goto(t, "done", "AttributeError")
               ELSE Goto(t, "exists", "running")
    /\ OnlyThreads

\* lines 100-102, 116-118: the exists() test of the batch directory
ThreadExists(t) ==
    /\ ~NoThreads /\ threads[t].pc = "exists"
    /\ IF Exists(fs, Slash(self.batches_dir, threads[t].task.key))
       THEN Goto(t, "open", "running")
       ELSE Goto(t, "done", "FileNotFoundError")
    /\ OnlyThreads

\* lines 73-74, 103-104, 119-120: the target is formed and opened for writing,
\* which creates it or cuts it to length 0
ThreadOpen(t) ==
    /\ ~NoThreads /\ threads[t].pc = "open"
    /\ LET target == TargetOf(self, threads[t].task)
           o == WriteFile(fs, target, << >>)
       IN IF o.err # "ok"
          THEN /\ Goto(t, "done", o.err)
               /\ UNCHANGED fs
          ELSE /\ threads' = [threads EXCEPT ![t].pc = "flush",
                                              ![t].target = Locate(fs, target)]
               /\ fs' = o.fs
    /\ UNCHANGED <<now, constructed, self, call, outcome, ret, pre, created, written, nwrites>>

\* lines 74, 104, 120: the data is written through the open descriptor and the
\* file is closed; the call returns
ThreadFlush(t) ==
    /\ ~NoThreads /\ threads[t].pc = "flush"
    /\ LET loc == threads[t].target
       IN fs' = [fs EXCEPT !.files[loc] = WriteAt0(@, DataOf(threads[t].task))]
    /\ Goto(t, "done", "ok")
    /\ UNCHANGED <<now, constructed, self, call, outcome, ret, pre, created, written, nwrites>>

\* one run in which, after the run directory and some batches were made by
\* one thread, MaxThreads threads each make one write call
NextThreads ==
    \/ NoThreads /\ \E b \in BaseDirs, p \in PdfPaths : Construct(b, p)
    \/ NoThreads /\ CreateRunDir("none", MaxThreads)
    \/ NoThreads /\ \E s \in 0..1, e \in 0..1 : CreateBatch(s, e, MaxThreads)
    \/ NoThreads /\ self.run_dir # None /\ \E tasks \in TaskVectors : Spawn(tasks)
    \/ \E t \in 1..MaxThreads : ThreadGuard(t)
    \/ \E t \in 1..MaxThreads : ThreadExists(t)
    \/ \E t \in 1..MaxThreads : ThreadOpen(t)
    \/ \E t \in 1..MaxThreads : ThreadFlush(t)

SpecThreads == Init /\ [][NextThreads]_vars

\* several runs of one gateway on a disk that never fails, with one page, one
\* batch and one content per artifact
NextRuns ==
    \/ Tick
    \/ Calls({"none"}, {0}, {<<"b1">>}, {FormatBatchId(0, 0)}, {<<"h", "i">>},
             {HaltPayload}, MaxRunWrites)

SpecRuns == Init /\ [][NextRuns]_vars

\* one run that only writes page images, over the indices where the length
\* of the name changes
NextPages ==
    \/ \E b \in BaseDirs, p \in PdfPaths : Construct(b, p)
    \/ CreateRunDir("none", MaxPageWrites)
    \/ \E i \in PageIndices : WriteImage(i, <<"b1">>, MaxPageWrites)

SpecPages == Init /\ [][NextPages]_vars

(***************************************************************************)
(* Vocabulary of the properties.                                           *)
(***************************************************************************)
WriteOps == {"write_image", "create_batch", "write_prompt", "write_response",
             "write_final_excel"}

IsArtifactWrite == call.op \in {"write_prompt", "write_response"}

\* the gateway was initialized when the most recent call was made
WasInitialized == pre.self.run_dir # None

Chars(s) == {s[i] : i \in 1..Len(s)}

AllowedChars == {"0", "1", "2", "3", "4", "5", "6", "7", "8", "9", "-"}

\* a batch_id that is empty, has no dash, or has a character outside 0-9 and "-"
Malformed(id) == id = << >> \/ "-" \notin Chars(id) \/ ~(Chars(id) \subseteq AllowedChars)

\* the most recent call had arguments that validation rejects
RejectedArgs ==
    \/ call.op = "create_batch" /\ call.args[1] > call.args[2]
    \/ IsArtifactWrite /\ Malformed(call.args[1])

\* the file paths whose presence or content differs between filesystems f and g
ChangedFiles(f, g) ==
    {q \in DOMAIN f.files \cup DOMAIN g.files :
        \/ q \notin DOMAIN f.files
        \/ q \notin DOMAIN g.files
        \/ f.files[q] # g.files[q]}

\* the file name each artifact write uses
ArtifactName == IF call.op = "write_prompt" THEN S_prompt_md ELSE S_response_json

(***************************************************************************)
(* C1.  As stated: every write method called before create_run_dir has     *)
(* succeeded fails with AttributeError, whatever its arguments.            *)
(***************************************************************************)
C1_AlwaysAttributeError ==
    (call.op \in WriteOps /\ ~WasInitialized) => outcome = "AttributeError"

\* C1, amended: before create_run_dir has succeeded a write method fails with
\* ValueError when its arguments are rejected by validation (start > end, a
\* malformed batch_id) and with AttributeError otherwise; it never fails with
\* a filesystem error, and the filesystem is left as it was.
C1_UninitializedFails ==
    (call.op \in WriteOps /\ ~WasInitialized) =>
        /\ outcome = IF RejectedArgs THEN "ValueError" ELSE "AttributeError"
        /\ fs = pre.fs

C1_Witness ==
    /\ call.op = "write_response"
    /\ ~WasInitialized
    /\ outcome = "AttributeError"

(***************************************************************************)
(* C2.  write_prompt and write_response with a malformed batch_id raise    *)
(* ValueError whether the gateway is initialized or not, and leave the     *)
(* filesystem exactly as it was.                                           *)
(***************************************************************************)
C2_MalformedIdRejected ==
    (IsArtifactWrite /\ Malformed(call.args[1])) =>
        /\ outcome = "ValueError"
        /\ fs = pre.fs

\* an initialized gateway rejects an id that has a dash and a foreign
\* character, and that names an existing directory
C2_Witness ==
    /\ call.op = "write_prompt"
    /\ WasInitialized
    /\ "-" \in Chars(call.args[1])
    /\ "/" \in Chars(call.args[1])
    /\ Exists(fs, Slash(pre.self.batches_dir, call.args[1]))
    /\ outcome = "ValueError"

(***************************************************************************)
(* C3.  A successful write_prompt or write_response changes exactly one    *)
(* location: the file prompt.md or response.json inside the directory      *)
(* batches_dir/<batch_id>, where batch_id is a single path component and   *)
(* the directory is a direct child of the run's batches directory, itself  *)
(* inside the run directory.                                               *)
(***************************************************************************)
C3_WritesStayInBatchDir ==
    (IsArtifactWrite /\ outcome = "ok") =>
        LET id == call.args[1]
            batch_dir == Append(self.batches_dir.parts, id)
            target == Append(batch_dir, ArtifactName)
        IN /\ "/" \notin Chars(id) /\ id \notin {<< >>, S_dot, S_dotdot}
           /\ self.batches_dir.parts = Append(self.run_dir.parts, S_batches)
           /\ batch_dir \in pre.fs.dirs
           /\ target \in DOMAIN fs.files
           /\ ChangedFiles(pre.fs, fs) \subseteq {target}
           /\ fs.dirs = pre.fs.dirs
           /\ ret.v = [abs |-> TRUE, parts |-> target]

C3_Witness ==
    /\ call.op = "write_response"
    /\ outcome = "ok"
    /\ ChangedFiles(pre.fs, fs) # {}

(***************************************************************************)
(* C4.  On an initialized gateway, write_prompt and write_response with a  *)
(* well-formed batch_id that no create_batch of the current run returned   *)
(* raise FileNotFoundError and create no file or directory.                *)
(***************************************************************************)
C4_UnknownBatchNotFound ==
    (/\ IsArtifactWrite
     /\ WasInitialized
     /\ ~Malformed(call.args[1])
     /\ call.args[1] \notin {c.id : c \in created}) =>
        /\ outcome = "FileNotFoundError"
        /\ fs = pre.fs

\* the id is one create_batch would return, next to batches that do exist
C4_Witness ==
    /\ call.op = "write_prompt"
    /\ WasInitialized
    /\ call.args[1] = FormatBatchId(0, 0)
    /\ call.args[1] \notin {c.id : c \in created}
    /\ Cardinality(created) = 2
    /\ outcome = "FileNotFoundError"

(***************************************************************************)
(* C5.  As stated: on an initialized gateway, for all integers start <= end *)
(* whose range has no batch yet, create_batch returns start zero-padded to *)
(* 4 digits, one dash, end zero-padded to 4 digits, and a directory of     *)
(* that name exists directly under batches_dir afterwards.                 *)
(***************************************************************************)
DigitValue(ch) == CHOOSE d \in 0..9 : DigitChars[d + 1] = ch

RECURSIVE NumberOf(_)
\* the number a string of digits denotes
NumberOf(r) == IF r = << >> THEN 0
               ELSE 10 * NumberOf(SubSeq(r, 1, Len(r) - 1)) + DigitValue(r[Len(r)])

\* r is n >= 0 written in decimal and zero-padded to 4 digits
IsPaddedNat(r, n) ==
    /\ n >= 0
    /\ Len(r) >= 4
    /\ \A i \in 1..Len(r) : IsDigit(r[i])
    /\ Len(r) > 4 => r[1] # "0"
    /\ NumberOf(r) = n

\* r is the integer n with its digits zero-padded to 4, after a sign if n < 0
IsPaddedInt(r, n) ==
    IF n >= 0 THEN IsPaddedNat(r, n)
    ELSE r # << >> /\ r[1] = "-" /\ IsPaddedNat(Tail(r), -n)

\* r is padded start, one dash, padded end
IsRangeId(r, start, end) ==
    \E k \in 1..Len(r) :
        /\ r[k] = "-"
        /\ IsPaddedInt(SubSeq(r, 1, k - 1), start)
        /\ IsPaddedInt(SubSeq(r, k + 1, Len(r)), end)

\* the most recent call is a create_batch on an initialized gateway for a
\* range start <= end that had no batch yet
FreshBatchCall ==
    /\ call.op = "create_batch"
    /\ WasInitialized
    /\ call.args[1] <= call.args[2]
    /\ ~\E c \in pre.created : c.start = call.args[1] /\ c.end = call.args[2]

\* create_batch returned the padded identifier and made its directory
BatchMade ==
    /\ outcome = "ok"
    /\ IsRangeId(ret.v, call.args[1], call.args[2])
    /\ Append(self.batches_dir.parts, ret.v) \in fs.dirs
    /\ Append(self.batches_dir.parts, ret.v) \notin pre.fs.dirs

C5_AllIntegers == FreshBatchCall => BatchMade

\* C5, amended: the same for all integers 0 <= start <= end: the identifier
\* is start and end in decimal, each zero-padded to at least 4 digits, joined
\* by one dash.  (A negative index is padded to 4 characters including its
\* sign, so to 3 digits.)
C5_NonNegative == (FreshBatchCall /\ call.args[1] >= 0) => BatchMade

C5_Witness ==
    /\ FreshBatchCall
    /\ call.args = <<0, 10^Width>>
    /\ outcome = "ok"
    /\ pre.created # {}

(***************************************************************************)
(* C6.  Within one run, a create_batch for a range that an earlier         *)
(* create_batch of the run created raises FileExistsError and leaves the   *)
(* batch directory and the files in it as they were.                       *)
(***************************************************************************)
C6_DuplicateBatchFails ==
    (call.op = "create_batch"
     /\ \E c \in pre.created : c.start = call.args[1] /\ c.end = call.args[2]) =>
        /\ outcome = "FileExistsError"
        /\ fs = pre.fs
        /\ \A c \in pre.created : Append(self.batches_dir.parts, c.id) \in fs.dirs

\* the duplicate comes after a prompt and a response were written into the batch
C6_Witness ==
    /\ call.op = "create_batch"
    /\ outcome = "FileExistsError"
    /\ \E c \in pre.created :
          /\ c.start = call.args[1] /\ c.end = call.args[2]
          /\ <<"prompt", c.id>> \in DOMAIN written
          /\ <<"response", c.id>> \in DOMAIN written

(***************************************************************************)
(* C7.  Last write wins: every artifact written in the current run holds   *)
(* the content of the most recent successful write to its key: the bytes   *)
(* for a page image and output.xlsx, the text for prompt.md, and the       *)
(* indent-2 JSON text of the payload for response.json.                    *)
(***************************************************************************)
\* the file that holds the artifact of key k
FileOf(k) ==
    IF k[1] = "image"
    THEN Append(self.pages_dir.parts, S_page_ \o FormatD(k[2], Width) \o S_png)
    ELSE IF k[1] = "prompt"
    THEN self.batches_dir.parts \o <<k[2], S_prompt_md>>
    ELSE IF k[1] = "response"
    THEN self.batches_dir.parts \o <<k[2], S_response_json>>
    ELSE Append(self.run_dir.parts, S_output_xlsx)

\* what reading that file must return
ContentOf(k) == IF k[1] = "response" THEN Dumps(written[k], 2, FALSE) ELSE written[k]

Fields(o) == <<o.run_dir, o.pages_dir, o.batches_dir>>

C8_FieldsAllOrNone ==
    /\ \/ self.run_dir = None /\ self.pages_dir = None /\ self.batches_dir = None
       \/ self.run_dir # None /\ self.pages_dir # None /\ self.batches_dir # None
    /\ (call.op = "create_run_dir" /\ outcome # "ok") => Fields(self) = Fields(pre.self)

\* the copy of the PDF failed on a gateway that was already initialized
C8_Witness ==
    /\ call.op = "create_run_dir"
    /\ call.args[1] = "copy2"
    /\ outcome = "OSError"
    /\ WasInitialized
    /\ fs # pre.fs

(***************************************************************************)
(* C9.  As stated: once run_dir, pages_dir and batches_dir are set, no     *)
(* step changes them.                                                      *)
(***************************************************************************)
C9_AssignedOnce ==
    [][self.run_dir # None => Fields(self') = Fields(self)]_vars

\* C9, amended: the three fields change only in a create_run_dir that
\* succeeds, which sets them to the run directory it returns and to that
\* directory's pages and batches children; no other operation and no failing
\* create_run_dir changes them.
C9_OnlyCreateRunDirAssigns ==
    [][Fields(self') # Fields(self) =>
          /\ call'.op = "create_run_dir"
          /\ outcome' = "ok"
          /\ self'.run_dir = ret'.v
          /\ self'.pages_dir = [abs |-> TRUE, parts |-> Append(ret'.v.parts, S_pages)]
          /\ self'.batches_dir = [abs |-> TRUE, parts |-> Append(ret'.v.parts, S_batches)]
      ]_vars

\* a second create_run_dir has replaced the paths of the first
C9_Witness ==
    /\ call.op = "create_run_dir"
    /\ WasInitialized
    /\ self.run_dir # pre.self.run_dir

(***************************************************************************)
(* C10.  A create_run_dir whose timestamp names a directory that already   *)
(* exists under base_dir raises; that directory and everything in it stay  *)
(* as they were, no file is overwritten, and the three fields keep their   *)
(* values.                                                                 *)
(***************************************************************************)
\* the run directory the most recent create_run_dir computed
ComputedRunDir == Append(pre.self.base_dir.parts, FormatTime(call.args[2]))

IsUnder(q, d) == Len(q) >= Len(d) /\ SubSeq(q, 1, Len(d)) = d

C10_ExistingRunDirKept ==
    (call.op = "create_run_dir" /\ ComputedRunDir \in pre.fs.dirs) =>
        /\ outcome # "ok"
        /\ {d \in fs.dirs : IsUnder(d, ComputedRunDir)}
              = {d \in pre.fs.dirs : IsUnder(d, ComputedRunDir)}
        /\ ChangedFiles(pre.fs, fs) = {}
        /\ Fields(self) = Fields(pre.self)

\* the run directory that is in the way is the current run, with files in it
C10_Witness ==
    /\ call.op = "create_run_dir"
    /\ call.args[1] = "none"
    /\ outcome = "FileExistsError"
    /\ pre.self.run_dir = [abs |-> TRUE, parts |-> ComputedRunDir]
    /\ DOMAIN written # {}

(***************************************************************************)
(* C11.  RunStorage(base_dir, pdf_path) raises ValueError when base_dir or *)
(* pdf_path is not absolute and otherwise succeeds with run_dir, pages_dir *)
(* and batches_dir unset; either way the filesystem is left as it was, and *)
(* base_dir need not exist.                                                *)
(***************************************************************************)
C11_ConstructionChecksPaths ==
    call.op = "__init__" =>
        /\ outcome = IF call.args[1].abs /\ call.args[2].abs THEN "ok" ELSE "ValueError"
        /\ fs = pre.fs
        /\ outcome = "ok" =>
              /\ constructed
              /\ self = [Unset EXCEPT !.base_dir = call.args[1], !.pdf_path = call.args[2]]
        /\ outcome # "ok" => ~constructed /\ self = Unset

\* a gateway was constructed for a base_dir that is not on the disk
C11_Witness ==
    /\ call.op = "__init__"
    /\ outcome = "ok"
    /\ ~Exists(fs, self.base_dir)
    /\ self.run_dir = None

(***************************************************************************)
(* C12.  A write method that is called with rejected arguments, on an      *)
(* uninitialized gateway, or for a batch directory that does not exist     *)
(* raises ValueError, AttributeError or FileNotFoundError, and every write *)
(* method that raises one of these leaves the filesystem, the fields and   *)
(* the batches of the run exactly as they were.                            *)
(***************************************************************************)
\* the most recent call names, on an initialized gateway, a well-formed batch
\* whose directory was not there
MissingBatch ==
    /\ IsArtifactWrite
    /\ WasInitialized
    /\ ~Malformed(call.args[1])
    /\ Append(pre.self.batches_dir.parts, call.args[1]) \notin pre.fs.dirs

PreconditionFailure == outcome \in {"ValueError", "AttributeError", "FileNotFoundError"}

C12_FailedWriteChangesNothing ==
    call.op \in WriteOps =>
        /\ (RejectedArgs \/ ~WasInitialized \/ MissingBatch) => PreconditionFailure
        /\ PreconditionFailure =>
              /\ fs = pre.fs
              /\ self = pre.self
              /\ created = pre.created

\* a reversed range is refused by a gateway that already holds a batch
C12_Witness ==
    /\ call.op = "create_batch"
    /\ WasInitialized
    /\ call.args[1] > call.args[2]
    /\ outcome = "ValueError"
    /\ pre.created # {}

(***************************************************************************)
(* C13.  As stated: on an initialized gateway create_batch(start, end)     *)
(* fails whenever a batch of the run has a page range that overlaps        *)
(* [start, end], so no two batches of a run cover a common page index.     *)
(***************************************************************************)
\* the inclusive ranges of batches c and d share a page index
Overlap(c, d) == c.start <= d.end /\ d.start <= c.end

\* the range the most recent create_batch asked for
AskedRange == [start |-> call.args[1], end |-> call.args[2]]

C13_OverlapRejected ==
    /\ (call.op = "create_batch" /\ WasInitialized
        /\ \E c \in pre.created : Overlap(c, AskedRange)) => outcome # "ok"
    /\ \A c, d \in created : Overlap(c, d) => c = d

\* C13, amended: create_batch rejects duplicates only.  On an initialized
\* gateway and a disk that does not fail, create_batch(start, end) with
\* start <= end raises FileExistsError if a batch of the run has the same start
\* and the same end, and otherwise succeeds, whether or not the range
\* overlaps an existing one; the batches of a run have pairwise different
\* identifiers and directories, and different ranges never share a directory.
C13_OnlyDuplicatesRejected ==
    /\ (call.op = "create_batch" /\ WasInitialized /\ call.args[1] <= call.args[2]) =>
          IF \E c \in pre.created : c.start = call.args[1] /\ c.end = call.args[2]
          THEN outcome = "FileExistsError" /\ created = pre.created
          ELSE /\ outcome = "ok"
               /\ created = pre.created
                     \cup {[start |-> call.args[1], end |-> call.args[2], id |-> ret.v]}
    /\ \A c, d \in created : c.id = d.id => c = d
    /\ self.batches_dir # None =>
          \A c \in created : Append(self.batches_dir.parts, c.id) \in fs.dirs

\* a batch was created although its range overlaps a batch already there
C13_Witness ==
    /\ call.op = "create_batch"
    /\ WasInitialized
    /\ outcome = "ok"
    /\ \E c \in pre.created : Overlap(c, AskedRange) /\ c.start = call.args[1]

(***************************************************************************)
(* C14.  As stated: the page file names are "page_", exactly 4 digits,     *)
(* ".png" for every non-negative index; in a listing of the pages          *)
(* directory the name of page i sorts before the name of page j whenever   *)
(* i < j, and every index written has a name of its own.                   *)
(***************************************************************************)
\* the code point of a character that occurs in a page or batch name
Ord(ch) ==
    IF IsDigit(ch) THEN 48 + DigitValue(ch)
    ELSE IF ch = "-" THEN 45
    ELSE IF ch = "." THEN 46
    ELSE IF ch = "_" THEN 95
    ELSE IF ch = "a" THEN 97
    ELSE IF ch = "e" THEN 101
    ELSE IF ch = "g" THEN 103
    ELSE IF ch = "n" THEN 110
    ELSE 112

RECURSIVE LexLess(_, _)
\* a sorts strictly before b in the lexicographic order of strings
LexLess(a, b) ==
    IF b = << >> THEN FALSE
    ELSE IF a = << >> THEN TRUE
    ELSE IF Head(a) = Head(b) THEN LexLess(Tail(a), Tail(b))
    ELSE Ord(Head(a)) < Ord(Head(b))

\* the names a listing of the pages directory shows
PageNames ==
    {q[Len(q)] : q \in {x \in DOMAIN fs.files : Parent(x) = self.pages_dir.parts}}

\* the characters of a page name between "page_" and ".png"
PageDigits(name) == SubSeq(name, Len(S_page_) + 1, Len(name) - Len(S_png))

\* name is "page_", one or more digits, ".png"
IsPageName(name) ==
    /\ Len(name) > Len(S_page_) + Len(S_png)
    /\ SubSeq(name, 1, Len(S_page_)) = S_page_
    /\ SubSeq(name, Len(name) - Len(S_png) + 1, Len(name)) = S_png
    /\ \A i \in 1..Len(PageDigits(name)) : IsDigit(PageDigits(name)[i])

\* the page index a name denotes
IndexOfName(name) == NumberOf(PageDigits(name))

\* the page indices written in the current run
WrittenPages == {k[2] : k \in {x \in DOMAIN written : x[1] = "image"}}

\* the listing shows one well-formed name for each page written
OneNamePerPage ==
    /\ \A a \in PageNames : IsPageName(a)
    /\ {IndexOfName(a) : a \in PageNames} = WrittenPages
    /\ Cardinality(PageNames) = Cardinality(WrittenPages)

C14_FixedWidthSorted ==
    self.pages_dir # None =>
        /\ OneNamePerPage
        /\ \A a \in PageNames : Len(PageDigits(a)) = Width
        /\ \A a, b \in PageNames : IndexOfName(a) < IndexOfName(b) => LexLess(a, b)

\* C14, amended: the name has exactly 4 zero-padded digits for the indices
\* 0..9999 and more digits above; for all indices 0 <= i < j <= 9999 the name
\* of page i sorts strictly before the name of page j; and distinct
\* non-negative indices always have distinct names.
C14_SortedUpTo9999 ==
    self.pages_dir # None =>
        /\ OneNamePerPage
        /\ \A a \in PageNames :
              Len(PageDigits(a)) = Width <=> IndexOfName(a) < 10^Width
        /\ \A a, b \in PageNames :
              (IndexOfName(a) < IndexOfName(b) /\ IndexOfName(b) < 10^Width)
                  => LexLess(a, b)

\* pages 9 and 10, whose indices differ in length, are both on the disk
C14_Witness ==
    /\ call.op = "write_image"
    /\ outcome = "ok"
    /\ {9, 10} \subseteq WrittenPages
    /\ Cardinality(PageNames) = 2

(***************************************************************************)
(* C15.  After one successful create_run_dir, write_image calls on         *)
(* distinct page indices and write_prompt / write_response calls on        *)
(* distinct existing batch ids that run concurrently on several threads    *)
(* all succeed, and whatever the interleaving of their steps, the          *)
(* filesystem they leave is the one that the same calls leave when they    *)
(* run one after another, in any order.                                    *)
(***************************************************************************)
\* the whole call of a task, made on filesystem f
ApplyTask(f, obj, task) ==
    IF task.op = "write_image"
    THEN WriteImageM(f, obj, task.key[1], BlobOf(task.by))
    ELSE IF task.op = "write_prompt"
    THEN WritePromptM(f, obj, task.key, PromptOf(task.by))
    ELSE WriteResponseM(f, obj, task.key, PayloadOf(task.by))

RECURSIVE SeqRun(_, _, _)
\* the calls of threads order[i], order[i+1], ... made one after another on f:
\* whether all succeeded, and the filesystem left
SeqRun(f, order, i) ==
    IF i > Len(order) THEN [ok |-> TRUE, fs |-> f]
    ELSE LET r == ApplyTask(f, pre.self, threads[order[i]].task)
             rest == SeqRun(r.fs, order, i + 1)
         IN [ok |-> r.out = "ok" /\ rest.ok, fs |-> rest.fs]

\* the orders in which the threads' calls can be made one after another
Orders ==
    {o \in [1..Len(threads) -> 1..Len(threads)] :
        \A t, u \in 1..Len(threads) : t # u => o[t] # o[u]}

AllDone == ~NoThreads /\ \A t \in 1..Len(threads) : threads[t].pc = "done"

C15_ThreadsDoNotInterfere ==
    /\ \A t \in 1..Len(threads) : threads[t].out \in {"running", "ok"}
    /\ AllDone =>
          \A o \in Orders : SeqRun(pre.fs, o, 1).ok /\ SeqRun(pre.fs, o, 1).fs = fs

\* an image and a response were written by two threads, and both returned
C15_Witness ==
    /\ AllDone
    /\ threads[1].task.op = "write_image"
    /\ threads[2].task.op = "write_response"
    /\ fs # pre.fs

(***************************************************************************)
(* C16.  Whatever calls were made, every entry below a run directory is    *)
(* one of: the directories pages and batches, the files input(<stem>).pdf  *)
(* and output.xlsx at the run root, a file page_<index>.png in pages, a    *)
(* directory in batches (in the current run: one that create_batch made),  *)
(* or a file prompt.md or response.json in such a directory.               *)
(***************************************************************************)
\* the directories directly under base_dir
RunDirs ==
    {d \in fs.dirs : Len(d) = Len(self.base_dir.parts) + 1
                     /\ IsUnder(d, self.base_dir.parts)}

\* name is "page_", an integer in decimal, ".png"
IsIndexedPageName(name) ==
    \/ IsPageName(name)
    \/ /\ Len(name) > Len(S_page_) + Len(S_png) + 1
       /\ name[Len(S_page_) + 1] = "-"
       /\ IsPageName(S_page_ \o SubSeq(name, Len(S_page_) + 2, Len(name)))

InputCopyName == <<"i", "n", "p", "u", "t", "(", "d", "o", "c", ")", ".", "p", "d", "f">>

\* entry q, strictly below run directory R, has a documented place
Documented(R, q) ==
    LET rel == SubSeq(q, Len(R) + 1, Len(q))
    IN IF Len(rel) = 1
       THEN \/ q \in fs.dirs /\ rel[1] \in {S_pages, S_batches}
            \/ q \in DOMAIN fs.files /\ rel[1] \in {InputCopyName, S_output_xlsx}
       ELSE IF Len(rel) = 2
       THEN \/ rel[1] = S_pages /\ q \in DOMAIN fs.files /\ IsIndexedPageName(rel[2])
            \/ /\ rel[1] = S_batches /\ q \in fs.dirs
               /\ (self.run_dir # None /\ R = self.run_dir.parts)
                     => rel[2] \in {c.id : c \in created}
       ELSE /\ Len(rel) = 3
            /\ rel[1] = S_batches
            /\ q \in DOMAIN fs.files
            /\ rel[3] \in {S_prompt_md, S_response_json}

UsesReturnedId == IsArtifactWrite /\ call.args[1] \in {c.id : c \in created}

C17_ReturnedIdAccepted ==
    /\ \A c \in created : ~Malformed(c.id)
    /\ UsesReturnedId =>
          /\ outcome = "ok"
          /\ ret.v.parts = self.batches_dir.parts \o <<call.args[1], ArtifactName>>
          /\ ret.v.parts \in DOMAIN fs.files
          /\ Parent(ret.v.parts) \in pre.fs.dirs

\* the identifier is that of a range with a negative start and an end past
\* the format width
C17_Witness ==
    /\ UsesReturnedId
    /\ call.op = "write_prompt"
    /\ outcome = "ok"
    /\ \E c \in created : c.id = call.args[1] /\ c.start < 0 /\ c.end >= 10^Width

(***************************************************************************)
(* C18.  A create_run_dir that succeeds on an initialized gateway makes a  *)
(* new run directory next to the first and points the gateway to it, and   *)
(* leaves the tree of the first run as it was; every write that succeeds   *)
(* changes the disk only inside the current run directory; and a batch_id  *)
(* that exists only in an earlier run is refused with FileNotFoundError    *)
(* until create_batch makes it in the current run, after which it is       *)
(* accepted.                                                               *)
(***************************************************************************)
\* the directories and files of filesystem f at or below directory d
TreeOf(f, d) ==
    [dirs |-> {q \in f.dirs : IsUnder(q, d)},
     files |-> [q \in {x \in DOMAIN f.files : IsUnder(x, d)} |-> f.files[q]]]

\* the entries that filesystems f and g do not share
ChangedEntries(f, g) ==
    ((f.dirs \ g.dirs) \cup (g.dirs \ f.dirs)) \cup ChangedFiles(f, g)

\* before the most recent call: the names of batch directories of runs other
\* than the current one that the current run does not have
EarlierOnlyIds ==
    {q[Len(q)] : q \in {d \in pre.fs.dirs :
                          /\ Len(d) = Len(pre.self.base_dir.parts) + 3
                          /\ IsUnder(d, pre.self.base_dir.parts)
                          /\ d[Len(d) - 1] = S_batches
                          /\ ~IsUnder(d, pre.self.run_dir.parts)}}
    \ {c.id : c \in pre.created}

C18_SecondRunRedirects ==
    /\ (call.op = "create_run_dir" /\ WasInitialized /\ outcome = "ok") =>
          /\ ret.v # pre.self.run_dir
          /\ Parent(ret.v.parts) = Parent(pre.self.run_dir.parts)
          /\ ret.v.parts \notin pre.fs.dirs
          /\ self.run_dir = ret.v
          /\ Parent(self.pages_dir.parts) = ret.v.parts
          /\ Parent(self.batches_dir.parts) = ret.v.parts
          /\ TreeOf(fs, pre.self.run_dir.parts) = TreeOf(pre.fs, pre.self.run_dir.parts)
          /\ created = {}
    /\ (call.op \in WriteOps /\ outcome = "ok") =>
          \A q \in ChangedEntries(pre.fs, fs) : IsUnder(q, self.run_dir.parts)
    /\ (IsArtifactWrite /\ WasInitialized) =>
          IF call.args[1] \in {c.id : c \in pre.created} THEN outcome = "ok"
          ELSE IF call.args[1] \in EarlierOnlyIds
          THEN outcome = "FileNotFoundError" /\ fs = pre.fs
          ELSE TRUE

\* the second run holds a page, and a batch_id of the first run is refused
C18_Witness ==
    /\ call.op = "write_response"
    /\ WasInitialized
    /\ call.args[1] \in EarlierOnlyIds
    /\ outcome = "FileNotFoundError"
    /\ \E q \in DOMAIN fs.files : Parent(q) = self.pages_dir.parts

(***************************************************************************)
(* C19.  Whenever run_dir is set, the setup it records ran to its end: the *)
(* run directory, its pages and batches directories and the copy           *)
(* input(<stem>).pdf of the source document are on the disk, pages_dir is  *)
(* run_dir/pages and batches_dir is run_dir/batches; a run directory whose *)
(* setup stopped part-way is never the one the fields name.                *)
(***************************************************************************)
\* run directory R has everything create_run_dir puts there
SetUpInFull(R) ==
    /\ R \in fs.dirs
    /\ Append(R, S_pages) \in fs.dirs
    /\ Append(R, S_batches) \in fs.dirs
    /\ Append(R, InputCopyName) \in DOMAIN fs.files
    /\ fs.files[Append(R, InputCopyName)] = fs.files[self.pdf_path.parts]

C19_SetMeansComplete ==
    self.run_dir # None =>
        /\ SetUpInFull(self.run_dir.parts)
        /\ self.pages_dir = [abs |-> TRUE, parts |-> Append(self.run_dir.parts, S_pages)]
        /\ self.batches_dir = [abs |-> TRUE, parts |-> Append(self.run_dir.parts, S_batches)]
        /\ Parent(self.run_dir.parts) = self.base_dir.parts

\* the fields name a complete run while a run directory whose setup stopped
\* part-way lies next to it
C19_Witness ==
    /\ self.run_dir # None
    /\ call.op = "create_run_dir"
    /\ \E R \in RunDirs : R # self.run_dir.parts /\ ~SetUpInFull(R)

====
